---- MODULE Spec2Model ----
(***************************************************************************)
(* A model of the golang-ai-agent repository.                              *)
(*                                                                         *)
(*  - package workflow: Engine (ExecuteWorkflow, executeStep,              *)
(*    RegisterWorkflow, GetActiveJobs, GetTotalJobs) run by concurrent     *)
(*    goroutines, with the temporary workspace directories and the         *)
(*    processes the steps start;                                           *)
(*  - package apptesting: ApplicationTester.TestApplication and its six    *)
(*    language-specific checks.                                            *)
(***************************************************************************)
EXTENDS Integers, Sequences, FiniteSets, TLC

(***************************************************************************)
(* Bounds of the model.                                                    *)
(***************************************************************************)
\* ExecuteWorkflow calls started in one behaviour
MaxCalls == 2
\* RegisterWorkflow calls started in one behaviour
MaxRegs == 1
\* names os.MkdirTemp can draw for a workspace
NumPaths == 2
\* TestApplication calls started in one behaviour
MaxTests == 2
\* webhook requests handled in one behaviour
MaxWebhooks == 1
\* rows inserted into interactions_log in one behaviour
MaxLogs == 3
\* scheduled ProcessLogs runs in one behaviour
MaxRuns == 3

\* the goroutines that call ExecuteWorkflow
Callers == {"c1", "c2"}
\* the goroutines that call TestApplication
Testers == {"t1", "t2"}
\* the goroutine that calls RegisterWorkflow
Registrar == "reg"
Nobody == "nobody"
Paths == 1..NumPaths
NoPath == 0

VARIABLES
    \* ---- workflow.Engine ----
    workflows,    \* Engine.workflows: name -> Steps
    activeJobs,   \* Engine.activeJobs
    totalJobs,    \* Engine.totalJobs
    mutex,        \* Engine.mutex: the goroutine holding the write lock
    pending,      \* the Workflow RegisterWorkflow is storing (while it holds the lock)
    \* ---- the host ----
    fs,           \* workspace path -> inode of the directory there, 0 if none
    nextIno,      \* next inode the file system hands out
    remote,       \* files at the top of the repository behind ctx.CloneURL
    crashed,      \* the process died (fatal runtime error, unrecovered panic)
    \* ---- one ExecuteWorkflow call per caller ----
    pc,           \* position of the call
    name,         \* argument name
    tmp,          \* counters as read under the lock
    wf,           \* local workflow.Steps
    result,       \* local result
    tempDir,      \* local tempDir (NoPath before MkdirTemp)
    tempIno,      \* inode of the directory MkdirTemp made
    idx,          \* index of the loop over workflow.Steps (1-based)
    stepResult,   \* executeStep's stepResult, <<>> outside executeStep
    clock,        \* running process against its step's Timeout
    repo,         \* files of ctx.WorkDir/repo ("absent" until cloned)
    panicking,    \* a panic is unwinding the call
    racy,         \* the call read e.workflows while RegisterWorkflow was writing it
    launched,     \* history: <<index, command>> of every exec.Command run
    \* ---- counters of the model ----
    nCalls,
    nRegs,
    \* ---- apptesting.ApplicationTester: one TestApplication call per tester ----
    tools,        \* executables on the host's PATH
    tpc,          \* position of the call
    appReq,       \* argument appReq: Type and Language
    app,          \* what is at appPath
    language,     \* local language
    suite,        \* local suite
    server,       \* the process testAPIByLanguage started, the port it probes, the probes
    listener,     \* the host's ports: who listens on each
    nTests,
    \* ---- agent.Agent: one webhook request at a time ----
    webhookSecret, \* Agent.webhookSecret
    req,          \* the request HandleWebhook is handling
    hpc,          \* position of HandleWebhook
    response,     \* what HandleWebhook has written to the ResponseWriter
    wpc,          \* position of the goroutine running processWebhook
    stored,       \* the goroutine has stored a Result
    statusSent,   \* the commit status the goroutine has sent, << >> if none
    nWebhooks,
    \* ---- storage.FileStorage ----
    disk,         \* file path -> the JSON document there, << >> if none
    latest,       \* history: per key, the last successful Store or Delete
    lastOp,       \* the last operation and what it returned
    \* ---- database.DB and finetuning.Finetuner ----
    logs,         \* interactions_log: id -> absent, unprocessed, processed
    fpc,          \* position of the scheduled ProcessLogs
    batch,        \* the ids ProcessLogs read in this run
    everRead,     \* history: ids some run has read
    unmarked,     \* history: ids read by a run whose update failed
    late,         \* history: <<id, run>> for an id inserted between the read
                  \* and the update of that run
    nRuns

engineVars == <<workflows, activeJobs, totalJobs, mutex, pending, fs, nextIno,
                remote, crashed, pc, name, tmp, wf, result, tempDir,
                tempIno, idx, stepResult, clock, repo, panicking, racy,
                launched, nCalls, nRegs>>

testerVars == <<tools, tpc, appReq, app, language, suite, server, listener, nTests>>

agentVars == <<webhookSecret, req, hpc, response, wpc, stored, statusSent, nWebhooks>>

storeVars == <<disk, latest, lastOp>>

logVars == <<logs, fpc, batch, everRead, unmarked, late, nRuns>>

vars == <<engineVars, testerVars, agentVars, storeVars, logVars>>

(***************************************************************************)
(* package workflow: types and the default workflow                        *)
(***************************************************************************)
Step(n, cmd, args, dir, timeout) ==
    [Name |-> n, Command |-> cmd, Args |-> args, WorkDir |-> dir, Timeout |-> timeout]

\* registerDefaultWorkflows: the steps of "ci_cd" (timeouts in minutes)
CiCdSteps ==
    << Step("clone", "git", <<"clone", "", "">>, "", 5),
       Step("analyze", "echo", <<"Analyzing repository structure...">>, "", 1),
       Step("build", "echo", <<"Building application...">>, "", 10),
       Step("test", "echo", <<"Running tests...">>, "", 15),
       Step("security_scan", "echo", <<"Running security scan...">>, "", 5) >>

\* workflows a client may pass to RegisterWorkflow
RegCatalogue ==
    { [Name |-> "pipeline",
       Steps |-> << Step("clone", "git", <<"clone", "", "">>, "", 5),
                    Step("build", "echo", <<"build">>, "", 10),
                    Step("test", "echo", <<"test">>, "", 15) >>],
      [Name |-> "pipeline",
       Steps |-> << Step("clone", "git", <<"clone", "">>, "", 5) >>],
      [Name |-> "adhoc",
       Steps |-> << Step("lint", "golint", <<>>, "/srv/app", 0) >>],
      [Name |-> "ci_cd", Steps |-> << >>] }

\* names a caller may pass to ExecuteWorkflow
CallNames == {"ci_cd", "pipeline", "adhoc", "missing"}

\* what the repository behind ctx.CloneURL may hold at its top level
RepoContents == { {}, {"go.mod"}, {"package.json"}, {"Makefile"} }

NoError == << >>
\* the zero value of Result, projected on Success, Error, Steps and Duration
ZeroResult == [Success |-> FALSE, Error |-> NoError, Steps |-> << >>, Duration |-> "zero"]

\* ExecuteWorkflow, lines 130-134: the Result of an unknown workflow name
NotFoundResult(n) ==
    [Success |-> FALSE, Error |-> <<"workflow not found", n>>, Steps |-> << >>,
     Duration |-> "zero"]

\* ExecuteWorkflow, lines 140-145: result at the start of a run
InitialResult ==
    [Success |-> TRUE, Error |-> NoError, Steps |-> << >>, Duration |-> "zero"]

\* ExecuteWorkflow, lines 150-153: the Result when os.MkdirTemp fails
MkdirFailedResult ==
    [Success |-> FALSE, Error |-> <<"failed to create temp directory">>,
     Steps |-> << >>, Duration |-> "elapsed"]

(***************************************************************************)
(* Engine.mutex                                                            *)
(***************************************************************************)
\* Lock() returns only when no goroutine holds the lock
CanLock_NoExclusion == TRUE

CanLock == mutex = Nobody

\* RLock() returns only when no writer holds the lock
CanRLock == mutex = Nobody

\* GetActiveJobs / GetTotalJobs: RLock, read, RUnlock
GetActiveJobs == activeJobs

GetTotalJobs == totalJobs

\* ListWorkflows: the registered names
ListWorkflows == DOMAIN workflows

(***************************************************************************)
(* Engine.executeStep, pure parts                                          *)
(***************************************************************************)
\* lines 193-197: the "clone" case indexes args[1] and args[2] once len(args) >= 2
ClonePanics(step) ==
    step.Name = "clone" /\ Len(step.Args) >= 2 /\ Len(step.Args) < 3

\* lines 193-197: whether the clone URL and target were put into the arguments
CloneSubstituted(step) ==
    step.Name = "clone" /\ Len(step.Args) >= 3

\* lines 187-221: the executable that is run for a step, given the files of repo/
ResolveCommand(step, files) ==
    IF step.Name = "build" THEN
        IF "go.mod" \in files THEN "go"
        ELSE IF "package.json" \in files THEN "npm"
        ELSE IF "Makefile" \in files THEN "make"
        ELSE step.Command
    ELSE IF step.Name = "test" THEN
        IF "go.mod" \in files THEN "go"
        ELSE IF "package.json" \in files THEN "npm"
        ELSE step.Command
    ELSE step.Command

\* lines 224-229: the directory the step's process runs in
WorkDirKind(step) ==
    IF step.WorkDir # "" THEN "custom"
    ELSE IF step.Name # "clone" THEN "repo"
    ELSE "workspace"

\* files of ctx.WorkDir/repo as fileExists sees them
RepoFiles(c) == IF repo[c] = << >> THEN {} ELSE repo[c][1]

\* cmd.Dir must exist for the process to start
DirExists(c, step) == WorkDirKind(step) = "repo" => repo[c] # << >>

\* lines 239-245: the StepResult of a step whose command returned err
StepOutcome(step, err, duration) ==
    [Name |-> step.Name, Success |-> (err = ""), Error |-> err, Duration |-> duration]

\* lines 162: what is kept of a StepResult in result.Steps
Appended(sr) == [Name |-> sr.Name, Success |-> sr.Success, Error |-> sr.Error]

\* lines 164-168: the loop stops at a failed step
BreakOnFailure_Never(sr) == FALSE

BreakOnFailure(sr) == ~sr.Success

\* line 160: the range loop moves to the next step
NextIdx_Skip(i) == i + 2

NextIdx(i) == i + 1

(***************************************************************************)
(* Engine.workflows                                                        *)
(***************************************************************************)
\* line 128 without the exists test: a missing key reads as the zero Workflow
LookupWorkflow_ZeroValue(m, n) ==
    [exists |-> TRUE, Steps |-> IF n \in DOMAIN m THEN m[n] ELSE << >>]

\* line 128: workflow, exists := e.workflows[name]
LookupWorkflow(m, n) ==
    IF n \in DOMAIN m THEN [exists |-> TRUE, Steps |-> m[n]]
    ELSE [exists |-> FALSE, Steps |-> << >>]

\* line 270: e.workflows[workflow.Name] = workflow
StoreWorkflow(m, w) ==
    [k \in DOMAIN m \cup {w.Name} |-> IF k = w.Name THEN w.Steps ELSE m[k]]

(***************************************************************************)
(* The host's temporary directory                                          *)
(***************************************************************************)
\* a MkdirTemp that does not insist on a new name
MkdirTempCandidates_AnyName == Paths

\* os.MkdirTemp makes a directory under a name that does not exist yet
MkdirTempCandidates == {p \in Paths : fs[p] = 0}

\* a cleanup that is skipped when the call leaves through a panic
RemoveAll_NotOnPanic(c, p) == IF panicking[c] THEN fs ELSE [fs EXCEPT ![p] = 0]

\* line 155: defer os.RemoveAll(tempDir) removes whatever is at the path
RemoveAll(c, p) == [fs EXCEPT ![p] = 0]

(***************************************************************************)
(* Initial state: NewEngine(), no call in flight                           *)
(***************************************************************************)
InitHost(contents) ==
    /\ workflows = [n \in {"ci_cd"} |-> CiCdSteps]
    /\ activeJobs = 0
    /\ totalJobs = 0
    /\ mutex = Nobody
    /\ pending = << >>
    /\ fs = [p \in Paths |-> 0]
    /\ nextIno = 1
    /\ remote \in contents
    /\ crashed = FALSE
    /\ pc = [c \in Callers |-> "idle"]
    /\ name = [c \in Callers |-> ""]
    /\ tmp = [c \in Callers |-> <<0, 0>>]
    /\ wf = [c \in Callers |-> << >>]
    /\ result = [c \in Callers |-> ZeroResult]
    /\ tempDir = [c \in Callers |-> NoPath]
    /\ tempIno = [c \in Callers |-> 0]
    /\ idx = [c \in Callers |-> 0]
    /\ stepResult = [c \in Callers |-> << >>]
    /\ clock = [c \in Callers |-> "none"]
    /\ repo = [c \in Callers |-> << >>]
    /\ panicking = [c \in Callers |-> FALSE]
    /\ racy = [c \in Callers |-> FALSE]
    /\ launched = [c \in Callers |-> << >>]
    /\ nCalls = 0
    /\ nRegs = 0

(***************************************************************************)
(* Engine.RegisterWorkflow                                                 *)
(***************************************************************************)
\* lines 268-269: Lock(); the map write of line 270 begins
RegisterLock(w) ==
    /\ ~crashed
    /\ nRegs < MaxRegs
    /\ pending = << >>
    /\ CanLock
    /\ mutex' = Registrar
    /\ pending' = <<w>>
    /\ nRegs' = nRegs + 1
    /\ UNCHANGED <<workflows, activeJobs, totalJobs, fs, nextIno, remote, crashed,
                   pc, name, tmp, wf, result, tempDir, tempIno, idx, stepResult,
                   clock, repo, panicking, racy, launched, nCalls>>

\* line 270 completes, deferred Unlock()
RegisterStore ==
    /\ ~crashed
    /\ pending # << >>
    /\ workflows' = StoreWorkflow(workflows, pending[1])
    /\ pending' = << >>
    /\ mutex' = IF mutex = Registrar THEN Nobody ELSE mutex
    /\ UNCHANGED <<activeJobs, totalJobs, fs, nextIno, remote, crashed,
                   pc, name, tmp, wf, result, tempDir, tempIno, idx, stepResult,
                   clock, repo, panicking, racy, launched, nCalls, nRegs>>

(***************************************************************************)
(* Engine.ExecuteWorkflow                                                  *)
(***************************************************************************)
\* line 117: the call starts and takes the lock; the ++ of lines 118-119 read
Call(c, n) ==
    /\ ~crashed
    /\ pc[c] = "idle"
    /\ nCalls < MaxCalls
    /\ CanLock
    /\ mutex' = c
    /\ tmp' = [tmp EXCEPT ![c] = <<activeJobs, totalJobs>>]
    /\ name' = [name EXCEPT ![c] = n]
    /\ pc' = [pc EXCEPT ![c] = "inc"]
    /\ nCalls' = nCalls + 1
    /\ UNCHANGED <<workflows, activeJobs, totalJobs, pending, fs, nextIno, remote,
                   crashed, wf, result, tempDir, tempIno, idx, stepResult, clock,
                   repo, panicking, racy, launched, nRegs>>

\* lines 118-120: activeJobs++, totalJobs++ written, Unlock()
IncWrite(c) ==
    /\ ~crashed
    /\ pc[c] = "inc"
    /\ activeJobs' = tmp[c][1] + 1
    /\ totalJobs' = tmp[c][2] + 1
    /\ mutex' = Nobody
    /\ pc' = [pc EXCEPT ![c] = "lookup"]
    /\ tmp' = [tmp EXCEPT ![c] = <<0, 0>>]
    /\ UNCHANGED <<workflows, pending, fs, nextIno, remote, crashed, name, wf,
                   result, tempDir, tempIno, idx, stepResult, clock, repo,
                   panicking, racy, launched, nCalls, nRegs>>

\* lines 128-145: the call goes on with what it read from e.workflows
AfterLookup(c, lk) ==
    IF lk.exists
    THEN /\ wf' = [wf EXCEPT ![c] = lk.Steps]
         /\ result' = [result EXCEPT ![c] = InitialResult]
         /\ pc' = [pc EXCEPT ![c] = "mkdir"]
    ELSE /\ wf' = wf
         /\ result' = [result EXCEPT ![c] = NotFoundResult(name[c])]
         /\ pc' = [pc EXCEPT ![c] = "dec"]

\* line 128: e.workflows[name], read without the lock.  While RegisterWorkflow
\* is writing the map the read is a data race: it sees the map before or
\* after the write, or the runtime stops the process with
\* "fatal error: concurrent map read and map write".
Lookup(c) ==
    /\ ~crashed
    /\ pc[c] = "lookup"
    /\ IF pending = << >>
       THEN /\ AfterLookup(c, LookupWorkflow(workflows, name[c]))
            /\ UNCHANGED <<racy, crashed>>
       ELSE /\ racy' = [racy EXCEPT ![c] = TRUE]
            /\ \/ /\ \E m \in {workflows, StoreWorkflow(workflows, pending[1])} :
                         AfterLookup(c, LookupWorkflow(m, name[c]))
                  /\ UNCHANGED crashed
               \/ /\ crashed' = TRUE
                  /\ UNCHANGED <<wf, result, pc>>
    /\ UNCHANGED <<workflows, activeJobs, totalJobs, mutex, pending, fs, nextIno,
                   remote, name, tmp, tempDir, tempIno, idx, stepResult, clock,
                   repo, panicking, launched, nCalls, nRegs>>

\* lines 148-157: os.MkdirTemp; on error the call returns at once
MkdirTemp(c) ==
    /\ ~crashed
    /\ pc[c] = "mkdir"
    /\ \/ /\ result' = [result EXCEPT ![c] = MkdirFailedResult]
          /\ pc' = [pc EXCEPT ![c] = "dec"]
          /\ UNCHANGED <<fs, nextIno, tempDir, tempIno, idx>>
       \/ \E p \in MkdirTempCandidates :
            /\ fs' = [fs EXCEPT ![p] = nextIno]
            /\ nextIno' = nextIno + 1
            /\ tempDir' = [tempDir EXCEPT ![c] = p]
            /\ tempIno' = [tempIno EXCEPT ![c] = nextIno]
            /\ idx' = [idx EXCEPT ![c] = 1]
            /\ IF Len(wf[c]) = 0
               THEN /\ result' = [result EXCEPT ![c].Duration = "elapsed"]
                    /\ pc' = [pc EXCEPT ![c] = "rm"]
               ELSE /\ result' = result
                    /\ pc' = [pc EXCEPT ![c] = "step"]
    /\ UNCHANGED <<workflows, activeJobs, totalJobs, mutex, pending, remote,
                   crashed, name, tmp, wf, stepResult, clock, repo, panicking,
                   racy, launched, nCalls, nRegs>>

\* errors of cmd.CombinedOutput when no process could be started
LaunchErrors(c, step) ==
    {"executable file not found"}
        \cup (IF DirExists(c, step) THEN {} ELSE {"chdir: no such file or directory"})

\* lines 161, 177-235: executeStep up to the start of the step's process
StartStep(c) ==
    /\ ~crashed
    /\ pc[c] = "step"
    /\ LET step == wf[c][idx[c]] IN
       IF ClonePanics(step)
       THEN \* index out of range: the deferred calls run, the panic goes on
            /\ panicking' = [panicking EXCEPT ![c] = TRUE]
            /\ pc' = [pc EXCEPT ![c] = "rm"]
            /\ UNCHANGED <<stepResult, clock, launched>>
       ELSE /\ launched' = [launched EXCEPT ![c] =
                    Append(@, <<idx[c], ResolveCommand(step, RepoFiles(c))>>)]
            /\ UNCHANGED panicking
            /\ \/ \E err \in LaunchErrors(c, step) :
                    /\ stepResult' = [stepResult EXCEPT ![c] =
                            <<StepOutcome(step, err, "within")>>]
                    /\ pc' = [pc EXCEPT ![c] = "stepret"]
                    /\ UNCHANGED clock
               \/ /\ DirExists(c, step)
                  /\ clock' = [clock EXCEPT ![c] = "within"]
                  /\ pc' = [pc EXCEPT ![c] = "running"]
                  /\ UNCHANGED stepResult
    /\ UNCHANGED <<workflows, activeJobs, totalJobs, mutex, pending, fs, nextIno,
                   remote, crashed, name, tmp, wf, result, tempDir, tempIno, idx,
                   repo, racy, nCalls, nRegs>>

\* the step's declared Timeout passes while its process is still running;
\* nothing in executeStep watches for it (line 235 waits for the process)
TimeoutElapses(c) ==
    /\ ~crashed
    /\ pc[c] = "running"
    /\ clock[c] = "within"
    /\ wf[c][idx[c]].Timeout > 0
    /\ clock' = [clock EXCEPT ![c] = "over"]
    /\ UNCHANGED <<workflows, activeJobs, totalJobs, mutex, pending, fs, nextIno,
                   remote, crashed, pc, name, tmp, wf, result, tempDir, tempIno,
                   idx, stepResult, repo, panicking, racy, launched, nCalls, nRegs>>

\* lines 235-247: the process exits with a status, CombinedOutput returns
ProcessExits(c, status) ==
    /\ ~crashed
    /\ pc[c] = "running"
    /\ LET step == wf[c][idx[c]]
           err == IF status = 0 THEN "" ELSE "exit status 1" IN
       /\ stepResult' = [stepResult EXCEPT ![c] = <<StepOutcome(step, err, clock[c])>>]
       /\ repo' = [repo EXCEPT ![c] =
               IF status = 0 /\ CloneSubstituted(step) THEN <<remote>> ELSE @]
    /\ clock' = [clock EXCEPT ![c] = "none"]
    /\ pc' = [pc EXCEPT ![c] = "stepret"]
    /\ UNCHANGED <<workflows, activeJobs, totalJobs, mutex, pending, fs, nextIno,
                   remote, crashed, name, tmp, wf, result, tempDir, tempIno, idx,
                   panicking, racy, launched, nCalls, nRegs>>

\* lines 162-172: the StepResult is appended; the loop stops or goes on
StepReturn(c) ==
    /\ ~crashed
    /\ pc[c] = "stepret"
    /\ LET sr == stepResult[c][1]
           r1 == [result[c] EXCEPT !.Steps = Append(@, Appended(sr))]
           r2 == IF sr.Success THEN r1
                 ELSE [r1 EXCEPT !.Success = FALSE,
                                 !.Error = <<"step failed", wf[c][idx[c]].Name, sr.Error>>]
           last == BreakOnFailure(sr) \/ NextIdx(idx[c]) > Len(wf[c]) IN
       /\ result' = [result EXCEPT ![c] =
               IF last THEN [r2 EXCEPT !.Duration = "elapsed"] ELSE r2]
       /\ idx' = [idx EXCEPT ![c] = IF last THEN @ ELSE NextIdx(@)]
       /\ pc' = [pc EXCEPT ![c] = IF last THEN "rm" ELSE "step"]
    /\ stepResult' = [stepResult EXCEPT ![c] = << >>]
    /\ UNCHANGED <<workflows, activeJobs, totalJobs, mutex, pending, fs, nextIno,
                   remote, crashed, name, tmp, wf, tempDir, tempIno, clock, repo,
                   panicking, racy, launched, nCalls, nRegs>>

\* line 155: the deferred os.RemoveAll(tempDir)
RemoveTempDir(c) ==
    /\ ~crashed
    /\ pc[c] = "rm"
    /\ fs' = RemoveAll(c, tempDir[c])
    /\ repo' = [repo EXCEPT ![c] = IF fs'[tempDir[c]] = 0 THEN << >> ELSE @]
    /\ pc' = [pc EXCEPT ![c] = "dec"]
    /\ UNCHANGED <<workflows, activeJobs, totalJobs, mutex, pending, nextIno,
                   remote, crashed, name, tmp, wf, result, tempDir, tempIno, idx,
                   stepResult, clock, panicking, racy, launched, nCalls, nRegs>>

\* lines 122-123: the deferred function takes the lock; activeJobs-- reads
DecLock(c) ==
    /\ ~crashed
    /\ pc[c] = "dec"
    /\ CanLock
    /\ mutex' = c
    /\ tmp' = [tmp EXCEPT ![c] = <<activeJobs, totalJobs>>]
    /\ pc' = [pc EXCEPT ![c] = "decw"]
    /\ UNCHANGED <<workflows, activeJobs, totalJobs, pending, fs, nextIno, remote,
                   crashed, name, wf, result, tempDir, tempIno, idx, stepResult,
                   clock, repo, panicking, racy, launched, nCalls, nRegs>>

\* lines 124-125: activeJobs-- written, Unlock(); the call returns its Result
\* (or, when a panic is unwinding, leaves without one)
DecWrite(c) ==
    /\ ~crashed
    /\ pc[c] = "decw"
    /\ activeJobs' = tmp[c][1] - 1
    /\ mutex' = Nobody
    /\ pc' = [pc EXCEPT ![c] = IF panicking[c] THEN "panicked" ELSE "returned"]
    /\ tmp' = [tmp EXCEPT ![c] = <<0, 0>>]
    /\ UNCHANGED <<workflows, totalJobs, pending, fs, nextIno, remote, crashed,
                   name, wf, result, tempDir, tempIno, idx, stepResult, clock,
                   repo, panicking, racy, launched, nCalls, nRegs>>

\* the locals of a call that is over
ClearLocals(c) ==
    /\ name' = [name EXCEPT ![c] = ""]
    /\ wf' = [wf EXCEPT ![c] = << >>]
    /\ result' = [result EXCEPT ![c] = ZeroResult]
    /\ tempDir' = [tempDir EXCEPT ![c] = NoPath]
    /\ tempIno' = [tempIno EXCEPT ![c] = 0]
    /\ idx' = [idx EXCEPT ![c] = 0]
    /\ panicking' = [panicking EXCEPT ![c] = FALSE]
    /\ racy' = [racy EXCEPT ![c] = FALSE]
    /\ launched' = [launched EXCEPT ![c] = << >>]

\* line 174 and the callers: the caller has the Result and is done with it
Done(c) ==
    /\ ~crashed
    /\ pc[c] = "returned"
    /\ pc' = [pc EXCEPT ![c] = "idle"]
    /\ ClearLocals(c)
    /\ UNCHANGED <<workflows, activeJobs, totalJobs, mutex, pending, fs, nextIno,
                   remote, crashed, tmp, stepResult, clock, repo, nCalls, nRegs>>

\* the panic reaches the caller of ExecuteWorkflow: a goroutine without
\* recover (agent.processWebhook) ends the process, a caller with recover
\* goes on
PanicPropagates(c) ==
    /\ ~crashed
    /\ pc[c] = "panicked"
    /\ \/ /\ crashed' = TRUE
          /\ UNCHANGED pc
          /\ UNCHANGED <<name, wf, result, tempDir, tempIno, idx, panicking, racy,
                         launched>>
       \/ /\ pc' = [pc EXCEPT ![c] = "idle"]
          /\ ClearLocals(c)
          /\ UNCHANGED crashed
    /\ UNCHANGED <<workflows, activeJobs, totalJobs, mutex, pending, fs, nextIno,
                   remote, tmp, stepResult, clock, repo, nCalls, nRegs>>

\* one step of an ExecuteWorkflow call that has started
WorkflowStep(c) ==
    \/ IncWrite(c)
    \/ Lookup(c)
    \/ MkdirTemp(c)
    \/ StartStep(c)
    \/ TimeoutElapses(c)
    \/ \E status \in {0, 1} : ProcessExits(c, status)
    \/ StepReturn(c)
    \/ RemoveTempDir(c)
    \/ DecLock(c)
    \/ DecWrite(c)

\* one step of the goroutine c, which calls ExecuteWorkflow with names of ns
CallerStep(c, ns) ==
    \/ \E n \in ns : Call(c, n)
    \/ WorkflowStep(c)
    \/ Done(c)

RegistrarStep ==
    \/ \E w \in RegCatalogue : RegisterLock(w)
    \/ RegisterStore

(***************************************************************************)
(* package apptesting: ApplicationTester                                   *)
(***************************************************************************)
\* appReq.Type as the requirement analyzer sets it (web, api, cli)
AppTypes == {"api", "web", "cli"}

\* appReq.Language as callers pass it ("" when not declared)
DeclaredLanguages == {"", "Go", "python", "NodeJS", "rust"}

\* strings.ToLower on the declared languages
ToLower(str) ==
    IF str = "Go" THEN "go"
    ELSE IF str = "NodeJS" THEN "nodejs"
    ELSE str

\* what appPath may hold: its top-level files, whether package.json declares
\* a "test" script, and whether a source file assigns a secret literal
\* (password := "supersecret123") instead of reading it from the environment
AppDirs ==
    { [files |-> {}, testScript |-> FALSE, secretLiteral |-> FALSE],
      [files |-> {"go.mod", "main.go"}, testScript |-> FALSE, secretLiteral |-> FALSE],
      [files |-> {"go.mod", "main.go"}, testScript |-> FALSE, secretLiteral |-> TRUE],
      [files |-> {"package.json", "index.js"}, testScript |-> TRUE, secretLiteral |-> FALSE],
      [files |-> {"package.json", "go.mod"}, testScript |-> FALSE, secretLiteral |-> FALSE],
      [files |-> {"requirements.txt", "app.py"}, testScript |-> FALSE, secretLiteral |-> FALSE],
      [files |-> {"main.py"}, testScript |-> FALSE, secretLiteral |-> FALSE],
      [files |-> {"Gemfile", "pom.xml"}, testScript |-> FALSE, secretLiteral |-> FALSE] }

\* what the host may have installed
ToolSets ==
    { {},
      {"go", "npm", "node", "python"},
      {"go", "npm", "node", "python", "pytest", "eslint", "flake8", "gosec", "mvn"} }

\* the ports of the host: the three testAPIByLanguage probes, and one more
Ports == {"3000", "5000", "8080", "9000"}

\* main.go: the agent itself listens on $PORT, "8080" when PORT is not set
AgentPorts == {"8080", "9000"}

\* who listens on a port: nobody, the agent, the server a TestApplication
\* call started, or a process a finished call left behind
NoListener == "none"

Agent == "agent"

Orphan == "orphan"

Statuses == {"pass", "fail", "skip"}

JsNames == {"javascript", "node", "nodejs"}

GoNames == {"go", "golang"}

\* a detection that looks for the marker files before the declared language
detectApplicationLanguage_MarkersFirst(a, r) ==
    IF "package.json" \in a.files THEN "javascript"
    ELSE IF "go.mod" \in a.files THEN "go"
    ELSE IF "requirements.txt" \in a.files THEN "python"
    ELSE IF "pom.xml" \in a.files THEN "java"
    ELSE IF "composer.json" \in a.files THEN "php"
    ELSE IF "Gemfile" \in a.files THEN "ruby"
    ELSE IF r.Language # "" THEN ToLower(r.Language)
    ELSE "go"

\* lines 680-708: detectApplicationLanguage
detectApplicationLanguage(a, r) ==
    IF r.Language # "" THEN ToLower(r.Language)
    ELSE IF "package.json" \in a.files THEN "javascript"
    ELSE IF "go.mod" \in a.files THEN "go"
    ELSE IF "requirements.txt" \in a.files THEN "python"
    ELSE IF "pom.xml" \in a.files THEN "java"
    ELSE IF "composer.json" \in a.files THEN "php"
    ELSE IF "Gemfile" \in a.files THEN "ruby"
    ELSE "go"

\* how a command run with CombinedOutput can end: without error only when its
\* executable is installed
RunOutcomes(exe) == IF exe \in tools THEN {"ok", "err"} ELSE {"err"}

\* a check that reports a command's error under a status of its own
StatusOfRun_ErrorStatus(exe) ==
    {IF o = "ok" THEN "pass" ELSE "error" : o \in RunOutcomes(exe)}

\* the status of a check that ran one command
StatusOfRun(exe) == {IF o = "ok" THEN "pass" ELSE "fail" : o \in RunOutcomes(exe)}

\* lines 718-784: the statuses testBuildByLanguage can return
BuildStatuses(l, a) ==
    IF l \in JsNames THEN
        IF "package.json" \notin a.files THEN {"fail"} ELSE StatusOfRun("npm")
    ELSE IF l \in GoNames THEN StatusOfRun("go")
    ELSE IF l = "python" THEN
        IF "requirements.txt" \in a.files THEN StatusOfRun("pip") ELSE {"skip"}
    ELSE IF l = "java" THEN
        IF "pom.xml" \in a.files THEN StatusOfRun("mvn") ELSE StatusOfRun("javac")
    ELSE IF l = "php" THEN
        IF "composer.json" \in a.files THEN StatusOfRun("composer") ELSE {"skip"}
    ELSE IF l = "ruby" THEN
        IF "Gemfile" \in a.files THEN StatusOfRun("bundle") ELSE {"skip"}
    ELSE {"skip"}

\* lines 795-830: the executables testStaticAnalysisByLanguage runs
StaticCommands(l) ==
    IF l \in JsNames THEN {"eslint", "prettier"} \cap tools
    ELSE IF l \in GoNames THEN {"go"}
    ELSE IF l = "python" THEN {"flake8", "black"} \cap tools
    ELSE IF l = "java" THEN {"checkstyle"} \cap tools
    ELSE IF l = "php" THEN {"phpcs"} \cap tools
    ELSE IF l = "ruby" THEN {"rubocop"} \cap tools
    ELSE {}

\* lines 832-866: the statuses testStaticAnalysisByLanguage can return
StaticStatuses(l) ==
    IF StaticCommands(l) = {} THEN {"skip"}
    ELSE {"fail"} \cup
         (IF \A exe \in StaticCommands(l) : "ok" \in RunOutcomes(exe)
          THEN {"pass"} ELSE {})

\* lines 876-913: the executable testUnitByLanguage runs, "" for none
UnitCommand(l, a) ==
    IF l \in JsNames THEN
        IF "package.json" \in a.files /\ a.testScript THEN "npm" ELSE ""
    ELSE IF l \in GoNames THEN "go"
    ELSE IF l = "python" THEN
        IF "pytest" \in tools THEN "pytest"
        ELSE IF "python" \in tools THEN "python" ELSE ""
    ELSE IF l = "java" THEN
        IF "pom.xml" \in a.files THEN "mvn" ELSE ""
    ELSE IF l = "php" THEN
        IF "phpunit" \in tools THEN "phpunit" ELSE ""
    ELSE IF l = "ruby" THEN
        IF "Rakefile" \in a.files THEN "rake"
        ELSE IF "rspec" \in tools THEN "rspec" ELSE ""
    ELSE ""

\* lines 915-935: the statuses testUnitByLanguage can return
UnitStatuses(l, a) ==
    IF UnitCommand(l, a) = "" THEN {"skip"} ELSE StatusOfRun(UnitCommand(l, a))

\* lines 945-974: the commands testAPIByLanguage may start ("" for none; a Go
\* application is started only when its build succeeded) and the port probed
ApiCommands(l, a) ==
    IF l \in JsNames THEN
        IF "package.json" \in a.files THEN {"npm"}
        ELSE IF "app.js" \in a.files \/ "index.js" \in a.files THEN {"node"}
        ELSE {""}
    ELSE IF l \in GoNames THEN
        {""} \cup (IF "ok" \in RunOutcomes("go") THEN {"./app"} ELSE {})
    ELSE IF l = "python" THEN
        IF "app.py" \in a.files \/ "main.py" \in a.files THEN {"python"} ELSE {""}
    ELSE {""}

ApiPort(l, cmd) ==
    IF l \in GoNames /\ cmd # "" THEN "8080"
    ELSE IF l = "python" THEN "5000"
    ELSE "3000"

\* line 953: "npm start" is a launcher; the server is a child process of it
IsLauncher(cmd) == cmd = "npm"

\* lines 983-986: cmd.Start() behind a lock that one API check holds at a time
CanStartAPI_Serialised(t) == \A u \in Testers \ {t} : tpc[u] \notin {"probe", "stop"}

\* lines 983-986: cmd.Start() is called without any lock or port reservation
CanStartAPI(t) == TRUE

\* the four paths testAPIByLanguage probes (line 998)
ApiEndpoints == {"/", "/health", "/api", "/api/health"}

\* lines 1004-1013: what http.Get returns for a probe: an HTTP status, or
\* NoResponse when the connection failed (err != nil)
NoResponse == 0

HttpStatuses == {200, 404, 500}

\* line 1007: a response counts when its status is below this
ServerErrorFloor == 500

\* lines 1005-1009: the probe adds to successCount
Reachable(resp) == resp # NoResponse /\ resp < ServerErrorFloor

\* the answers to the four probes when owner listens on the probed port
ProbeOutcomes(owner) ==
    IF owner = NoListener THEN {[e \in ApiEndpoints |-> NoResponse]}
    ELSE [ApiEndpoints -> HttpStatuses]

\* lines 1001-1014: successCount after the loop over the endpoints
SuccessCount(resps) == Cardinality({e \in ApiEndpoints : Reachable(resps[e])})

\* lines 1024-1033: the status of the API check after its probes
ApiStatus(successCount) == IF successCount > 0 THEN "pass" ELSE "fail"

\* lines 1046-1063: the scanners testSecurityByLanguage runs
SecurityCommands(l) ==
    IF l \in JsNames THEN {"npm"} \cap tools
    ELSE IF l \in GoNames THEN {"gosec"} \cap tools
    ELSE IF l = "python" THEN {"safety", "bandit"} \cap tools
    ELSE {}

\* lines 1065-1098: testSecurityByLanguage reports pass with no scanner, and
\* pass whatever its scanners return (allPassed is never cleared)
SecurityStatuses(l) == IF SecurityCommands(l) = {} THEN {"pass"} ELSE {"pass"}

\* lines 1111-1142: testPerformanceByLanguage fails only when the walk of
\* appPath returns an error
PerformanceStatuses(l) == {"pass", "fail"}

\* a TestResult, projected on Type, Status and Coverage (no check sets
\* Coverage)
TestResult(type, status) == [Type |-> type, Status |-> status, Coverage |-> 0]

\* line 88 with the "web" case left out
RunsAPITest_ApiOnly(r) == r.Type = "api"

\* line 88: the API test is run for these application types only
RunsAPITest(r) == r.Type = "api" \/ r.Type = "web"

\* a TestApplication that stops at the first check that did not pass
NextCheck_FailFast(r, type, status) ==
    IF status # "pass" THEN "summary"
    ELSE IF type = "build" THEN "static"
    ELSE IF type = "static" THEN "unit"
    ELSE IF type = "unit" THEN (IF RunsAPITest(r) THEN "api" ELSE "security")
    ELSE IF type = "api" THEN "security"
    ELSE IF type = "security" THEN "performance"
    ELSE "summary"

\* lines 76-99: what TestApplication does after a check of this type returned
\* with this status
NextCheck(r, type, status) ==
    IF type = "build" THEN "static"
    ELSE IF type = "static" THEN "unit"
    ELSE IF type = "unit" THEN (IF RunsAPITest(r) THEN "api" ELSE "security")
    ELSE IF type = "api" THEN "security"
    ELSE IF type = "security" THEN "performance"
    ELSE "summary"

\* lines 106-115: one counter of the switch on result.Status
CountStatus(results, st) ==
    Cardinality({i \in 1..Len(results) : results[i].Status = st})

\* lines 117-123 with the order of the tests exchanged
OverallStatusOf_PassFirst(failed, passed) ==
    IF passed > 0 THEN "success"
    ELSE IF failed > 0 THEN "failure"
    ELSE "skipped"

\* lines 117-123
OverallStatusOf(failed, passed) ==
    IF failed > 0 THEN "failure"
    ELSE IF passed > 0 THEN "success"
    ELSE "skipped"

RECURSIVE SumCoverage(_)
SumCoverage(results) ==
    IF results = << >> THEN 0
    ELSE (IF Head(results).Coverage > 0 THEN Head(results).Coverage ELSE 0)
         + SumCoverage(Tail(results))

\* the float64 zero, and a quotient of two integers, as exact fractions
ZeroCoverage == [num |-> 0, den |-> 1]

\* lines 125-136 with every result counted in the divisor
CoverageOf_AllResults(results) ==
    IF Len(results) > 0 THEN [num |-> SumCoverage(results), den |-> Len(results)]
    ELSE ZeroCoverage

\* lines 125-136: totalCoverage / float64(coverageCount) over the results
\* with Coverage > 0; suite.Coverage keeps its zero value when there is none
CoverageOf(results) ==
    LET n == Cardinality({i \in 1..Len(results) : results[i].Coverage > 0}) IN
    IF n > 0 THEN [num |-> SumCoverage(results), den |-> n] ELSE ZeroCoverage

NoSuite ==
    [Results |-> << >>, TotalTests |-> 0, PassedTests |-> 0, FailedTests |-> 0,
     SkippedTests |-> 0, OverallStatus |-> "", Coverage |-> ZeroCoverage]

\* no process started by testAPIByLanguage
NoServer ==
    [state |-> "none", child |-> "none", port |-> "", probed |-> FALSE,
     successCount |-> 0, answeredBy |-> NoListener]

NoReq == [Type |-> "", Language |-> ""]

NoApp == [files |-> {}, testScript |-> FALSE, secretLiteral |-> FALSE]

InitTester(toolsets, agentPorts) ==
    /\ tools \in toolsets
    /\ tpc = [t \in Testers |-> "idle"]
    /\ appReq = [t \in Testers |-> NoReq]
    /\ app = [t \in Testers |-> NoApp]
    /\ language = [t \in Testers |-> ""]
    /\ suite = [t \in Testers |-> NoSuite]
    /\ server = [t \in Testers |-> NoServer]
    /\ \E ap \in agentPorts :
           listener = [p \in Ports |-> IF p = ap THEN Agent ELSE NoListener]
    /\ nTests = 0

\* a check returned: its TestResult is appended (lines 77, 81, 85, 90, 95, 99)
\* and TestApplication goes on
AppendResult(t, type, status) ==
    /\ suite' = [suite EXCEPT ![t].Results = Append(@, TestResult(type, status))]
    /\ tpc' = [tpc EXCEPT ![t] = NextCheck(appReq[t], type, status)]

\* lines 64-73: the call starts and detects the language
TestApplication(t, r, a) ==
    /\ tpc[t] = "idle"
    /\ nTests < MaxTests
    /\ appReq' = [appReq EXCEPT ![t] = r]
    /\ app' = [app EXCEPT ![t] = a]
    /\ language' = [language EXCEPT ![t] = detectApplicationLanguage(a, r)]
    /\ suite' = [suite EXCEPT ![t] = NoSuite]
    /\ tpc' = [tpc EXCEPT ![t] = "build"]
    /\ nTests' = nTests + 1
    /\ UNCHANGED <<tools, server, listener>>

\* lines 76-77: testBuildByLanguage
TestBuild(t) ==
    /\ tpc[t] = "build"
    /\ \E st \in BuildStatuses(language[t], app[t]) : AppendResult(t, "build", st)
    /\ UNCHANGED <<tools, appReq, app, language, server, listener, nTests>>

\* lines 80-81: testStaticAnalysisByLanguage
TestStatic(t) ==
    /\ tpc[t] = "static"
    /\ \E st \in StaticStatuses(language[t]) : AppendResult(t, "static", st)
    /\ UNCHANGED <<tools, appReq, app, language, server, listener, nTests>>

\* lines 84-91: testUnitByLanguage; the API test follows for some types only
TestUnit(t) ==
    /\ tpc[t] = "unit"
    /\ \E st \in UnitStatuses(language[t], app[t]) : AppendResult(t, "unit", st)
    /\ UNCHANGED <<tools, appReq, app, language, server, listener, nTests>>

\* lines 938-993: testAPIByLanguage up to cmd.Start()
TestAPIStart(t) ==
    /\ tpc[t] = "api"
    /\ CanStartAPI(t)
    /\ \E cmd \in ApiCommands(language[t], app[t]) :
        IF cmd = ""
        THEN /\ AppendResult(t, "api", "skip")
             /\ UNCHANGED server
        ELSE \/ /\ AppendResult(t, "api", "fail")
                /\ UNCHANGED server
             \/ /\ cmd \in tools \/ cmd = "./app"
                /\ server' = [server EXCEPT ![t] =
                        [NoServer EXCEPT !.state = "running",
                                         !.child = IF IsLauncher(cmd) THEN "running"
                                                   ELSE "none",
                                         !.port = ApiPort(language[t], cmd)]]
                /\ tpc' = [tpc EXCEPT ![t] = "probe"]
                /\ UNCHANGED suite
    /\ UNCHANGED <<tools, appReq, app, language, listener, nTests>>

\* the process just started (its child, for a launcher) binds the port it
\* is written for, if no other process holds that port
ServerBinds(t) ==
    /\ tpc[t] = "probe"
    /\ server[t].state = "running"
    /\ listener[server[t].port] = NoListener
    /\ listener' = [listener EXCEPT ![server[t].port] = t]
    /\ UNCHANGED <<tools, tpc, appReq, app, language, suite, server, nTests>>

\* lines 994-1014: after the grace period, http.Get on the four endpoints of
\* http://localhost:port, answered by whichever process listens there
TestAPIProbe(t) ==
    /\ tpc[t] = "probe"
    /\ LET owner == listener[server[t].port] IN
       \E resps \in ProbeOutcomes(owner) :
           server' = [server EXCEPT ![t].probed = TRUE,
                                    ![t].successCount = SuccessCount(resps),
                                    ![t].answeredBy = owner]
    /\ tpc' = [tpc EXCEPT ![t] = "stop"]
    /\ UNCHANGED <<tools, appReq, app, language, suite, listener, nTests>>

\* lines 1016-1035: cmd.Process.Kill() ends the process cmd started, not a
\* child of it; the status follows from successCount
TestAPIStop(t) ==
    /\ tpc[t] = "stop"
    /\ server' = [server EXCEPT ![t].state = "killed"]
    /\ listener' = [listener EXCEPT ![server[t].port] =
           IF @ = t /\ server[t].child # "running" THEN NoListener ELSE @]
    /\ AppendResult(t, "api", ApiStatus(server[t].successCount))
    /\ UNCHANGED <<tools, appReq, app, language, nTests>>

\* lines 94-95: testSecurityByLanguage
TestSecurity(t) ==
    /\ tpc[t] = "security"
    /\ \E st \in SecurityStatuses(language[t]) : AppendResult(t, "security", st)
    /\ UNCHANGED <<tools, appReq, app, language, server, listener, nTests>>

\* lines 98-99: testPerformanceByLanguage
TestPerformance(t) ==
    /\ tpc[t] = "performance"
    /\ \E st \in PerformanceStatuses(language[t]) :
           AppendResult(t, "performance", st)
    /\ UNCHANGED <<tools, appReq, app, language, server, listener, nTests>>

\* lines 101-141: the tallies, the overall status, the coverage; the suite
\* is returned
Summarize(t) ==
    /\ tpc[t] = "summary"
    /\ LET R == suite[t].Results
           passed == CountStatus(R, "pass")
           failed == CountStatus(R, "fail")
           skipped == CountStatus(R, "skip") IN
       suite' = [suite EXCEPT ![t] =
           [Results |-> R, TotalTests |-> Len(R), PassedTests |-> passed,
            FailedTests |-> failed, SkippedTests |-> skipped,
            OverallStatus |-> OverallStatusOf(failed, passed),
            Coverage |-> CoverageOf(R)]]
    /\ tpc' = [tpc EXCEPT ![t] = "returned"]
    /\ UNCHANGED <<tools, appReq, app, language, server, listener, nTests>>

\* the caller has the suite and is done with it; a child process that still
\* holds the port stays behind
TestDone(t) ==
    /\ tpc[t] = "returned"
    /\ tpc' = [tpc EXCEPT ![t] = "idle"]
    /\ appReq' = [appReq EXCEPT ![t] = NoReq]
    /\ app' = [app EXCEPT ![t] = NoApp]
    /\ language' = [language EXCEPT ![t] = ""]
    /\ suite' = [suite EXCEPT ![t] = NoSuite]
    /\ server' = [server EXCEPT ![t] = NoServer]
    /\ listener' = [p \in Ports |-> IF listener[p] = t THEN Orphan ELSE listener[p]]
    /\ UNCHANGED <<tools, nTests>>

\* one step of the goroutine t, which calls TestApplication with a
\* requirement of reqs on an application of apps
TesterStep(t, reqs, apps) ==
    \/ \E r \in reqs, a \in apps : TestApplication(t, r, a)
    \/ TestBuild(t)
    \/ TestStatic(t)
    \/ TestUnit(t)
    \/ TestAPIStart(t)
    \/ ServerBinds(t)
    \/ TestAPIProbe(t)
    \/ TestAPIStop(t)
    \/ TestSecurity(t)
    \/ TestPerformance(t)
    \/ Summarize(t)
    \/ TestDone(t)

(***************************************************************************)
(* package agent: HandleWebhook and the goroutine of processWebhook        *)
(***************************************************************************)
\* WEBHOOK_SECRET as NewAgent reads it ("" when not configured)
Secrets == {"", "s3cret"}

\* the X-Hub-Signature-256 header: whether it starts with "sha256=", and the
\* key its sender computed the HMAC-SHA256 of the body with; the header is
\* empty when it was not sent
NoSignature == [prefix |-> FALSE, key |-> ""]

Signatures ==
    {NoSignature} \cup [prefix : BOOLEAN, key : {"s3cret", "guess"}]

\* payload.Ref
Refs == {"refs/heads/main", "refs/heads/master", "refs/heads/feature/main",
         "refs/heads/dev"}

\* a request to the webhook endpoint: its method, whether its body can be
\* read, its signature header, whether its body is JSON for a
\* WebhookPayload, payload.Ref and len(payload.Commits)
Requests ==
    [method : {"POST", "GET"}, readable : BOOLEAN, sig : Signatures,
     json : BOOLEAN, ref : Refs, commits : {0, 1}]

NoRequest ==
    [method |-> "", readable |-> FALSE, sig |-> NoSignature, json |-> FALSE,
     ref |-> "", commits |-> 0]

\* no response written yet
NoWebhookResponse == [code |-> 0, body |-> ""]

\* a verification that only looks at the prefix of the header
verifySignature_PrefixOnly(secret, sig) == sig.prefix

\* lines 146-156: the header has the prefix "sha256=" and is the hex
\* HMAC-SHA256 of the body under a.webhookSecret, which it is exactly when
\* the sender used that key
verifySignature(secret, sig) == sig.prefix /\ sig.key = secret

\* line 106: strings.HasSuffix(payload.Ref, "/main") or "/master"
RefAccepted(ref) ==
    ref \in {"refs/heads/main", "refs/heads/master", "refs/heads/feature/main"}

\* lines 66-93: the response of HandleWebhook to a request it turns down,
\* code 0 when it goes on to line 95
Rejection(secret, r) ==
    IF r.method # "POST" THEN [code |-> 405, body |-> "Method not allowed"]
    ELSE IF ~r.readable THEN [code |-> 400, body |-> "Bad request"]
    ELSE IF secret # "" /\ ~verifySignature(secret, r.sig)
         THEN [code |-> 401, body |-> "Unauthorized"]
    ELSE IF ~r.json THEN [code |-> 400, body |-> "Bad request"]
    ELSE NoWebhookResponse

\* a handler that answers only when the goroutine it started is over
CanRespond_AfterWorkflow == wpc = "finished"

\* lines 98-100: the go statement returns at once; nothing is waited for
CanRespond == TRUE

\* lines 100-101: the response of an accepted webhook
Acknowledge == [code |-> 200, body |-> "accepted"]

\* lines 135-140: the commit status for a Result
CommitState(success) == IF success THEN "success" ELSE "failure"

InitAgent(secrets) ==
    /\ webhookSecret \in secrets
    /\ req = NoRequest
    /\ hpc = "idle"
    /\ response = NoWebhookResponse
    /\ wpc = "none"
    /\ stored = FALSE
    /\ statusSent = << >>
    /\ nWebhooks = 0

\* lines 65-95: a request arrives and goes through the gates of the handler
HandleWebhook(r) ==
    /\ hpc = "idle"
    /\ wpc = "none"
    /\ nWebhooks < MaxWebhooks
    /\ nWebhooks' = nWebhooks + 1
    /\ req' = r
    /\ response' = Rejection(webhookSecret, r)
    /\ hpc' = IF Rejection(webhookSecret, r) = NoWebhookResponse THEN "spawn" ELSE "done"
    /\ UNCHANGED <<webhookSecret, wpc, stored, statusSent>>

\* line 98: go a.processWebhook(payload)
SpawnProcessWebhook ==
    /\ hpc = "spawn"
    /\ wpc' = "gate"
    /\ hpc' = "respond"
    /\ UNCHANGED <<webhookSecret, req, response, stored, statusSent, nWebhooks>>

\* lines 100-101: the handler writes its response and returns
Respond ==
    /\ hpc = "respond"
    /\ CanRespond
    /\ response' = Acknowledge
    /\ hpc' = "done"
    /\ UNCHANGED <<webhookSecret, req, wpc, stored, statusSent, nWebhooks>>

\* lines 106-109: processWebhook returns for a ref it does not handle
IgnoreRef ==
    /\ wpc = "gate"
    /\ ~RefAccepted(req.ref)
    /\ wpc' = "finished"
    /\ UNCHANGED <<webhookSecret, req, hpc, response, stored, statusSent, nWebhooks>>

\* lines 106-128: processWebhook calls ExecuteWorkflow("ci_cd", ctx)
ProcessWebhook(c) ==
    /\ wpc = "gate"
    /\ RefAccepted(req.ref)
    /\ Call(c, "ci_cd")
    /\ wpc' = "executing"
    /\ UNCHANGED <<webhookSecret, req, hpc, response, stored, statusSent, nWebhooks>>

\* lines 128-131: ExecuteWorkflow has returned; the Result is stored
StoreResult(c) ==
    /\ wpc = "executing"
    /\ pc[c] = "returned"
    /\ stored' = TRUE
    /\ wpc' = IF result[c].Success THEN "status_success" ELSE "status_failure"
    /\ Done(c)
    /\ UNCHANGED <<webhookSecret, req, hpc, response, statusSent, nWebhooks>>

\* lines 134-144: SetCommitStatus when the push has a commit
SendStatus ==
    /\ wpc \in {"status_success", "status_failure"}
    /\ statusSent' = IF req.commits > 0
                     THEN <<CommitState(wpc = "status_success")>>
                     ELSE statusSent
    /\ wpc' = "finished"
    /\ UNCHANGED <<webhookSecret, req, hpc, response, stored, nWebhooks>>

\* the request is over: the handler has returned and its goroutine, if any,
\* has ended
RequestOver ==
    /\ hpc = "done"
    /\ wpc \in {"none", "finished"}
    /\ hpc' = "idle"
    /\ wpc' = "none"
    /\ req' = NoRequest
    /\ response' = NoWebhookResponse
    /\ stored' = FALSE
    /\ statusSent' = << >>
    /\ UNCHANGED <<webhookSecret, nWebhooks>>

(***************************************************************************)
(* package storage: FileStorage                                            *)
(***************************************************************************)
\* keys callers pass, and the file filepath.Join(basePath, key+".json") names
StoreKeys == {"a", "./a", "b"}

FilePath(k) == IF k = "b" THEN "b.json" ELSE "a.json"

FilePaths == {FilePath(k) : k \in StoreKeys}

\* data callers store: a string, and int64 values up to and above 2^53
StoreValues ==
    { [type |-> "string", v |-> "test_value"],
      [type |-> "int64", v |-> "7"],
      [type |-> "int64", v |-> "9007199254740993"] }

\* encoding/json decodes a number into interface{} as the nearest float64
Float64Of(lit) == IF lit = "9007199254740993" THEN "9007199254740992" ELSE lit

\* lines 38-44: json.MarshalIndent of the StoredItem: the JSON text of Data
MarshalItem(v) ==
    IF v.type = "string" THEN [json |-> "string", lit |-> v.v]
    ELSE [json |-> "number", lit |-> v.v]

\* lines 75-88: the file is decoded into a StoredItem whose Data is an
\* interface{}, Data is encoded again and decoded into dest
UnmarshalItem(doc) ==
    IF doc.json = "string" THEN [type |-> "string", v |-> doc.lit]
    ELSE [type |-> "int64", v |-> Float64Of(doc.lit)]

NoFile == << >>

NoOp == [op |-> "", key |-> "", err |-> "", data |-> << >>]

InitStore ==
    /\ disk = [p \in FilePaths |-> NoFile]
    /\ latest = [k \in StoreKeys |-> <<"never">>]
    /\ lastOp = NoOp

\* lines 37-62: Store writes the file of the key
Store(k, v) ==
    /\ disk' = [disk EXCEPT ![FilePath(k)] = <<MarshalItem(v)>>]
    /\ latest' = [latest EXCEPT ![k] = <<"stored", v>>]
    /\ lastOp' = [op |-> "Store", key |-> k, err |-> "", data |-> << >>]

\* lines 64-91: Retrieve reads the file of the key into dest
Retrieve(k) ==
    /\ lastOp' =
          IF disk[FilePath(k)] = NoFile
          THEN [op |-> "Retrieve", key |-> k, err |-> "key not found", data |-> << >>]
          ELSE [op |-> "Retrieve", key |-> k, err |-> "",
                data |-> <<UnmarshalItem(disk[FilePath(k)][1])>>]
    /\ UNCHANGED <<disk, latest>>

\* lines 127-138: Delete removes the file of the key
Delete(k) ==
    /\ IF disk[FilePath(k)] = NoFile
       THEN /\ lastOp' = [op |-> "Delete", key |-> k, err |-> "key not found",
                          data |-> << >>]
            /\ UNCHANGED <<disk, latest>>
       ELSE /\ disk' = [disk EXCEPT ![FilePath(k)] = NoFile]
            /\ latest' = [latest EXCEPT ![k] = <<"deleted">>]
            /\ lastOp' = [op |-> "Delete", key |-> k, err |-> "", data |-> << >>]

(***************************************************************************)
(* package finetuning and package database: ProcessLogs on interactions_log *)
(***************************************************************************)
\* the ids of the rows request handlers insert
LogIds == 1..MaxLogs

\* MarkLogsAsProcessed without its WHERE id IN (...) clause
MarkedRows_AllUnprocessed(rows, ids) ==
    [i \in LogIds |-> IF rows[i] = "unprocessed" THEN "processed" ELSE rows[i]]

\* lines 207-225: UPDATE ... SET processed_for_finetuning = 1 WHERE id IN ids
MarkedRows(rows, ids) ==
    [i \in LogIds |-> IF i \in ids /\ rows[i] # "absent" THEN "processed" ELSE rows[i]]

\* lines 162-168: SELECT ... WHERE processed_for_finetuning = 0
UnprocessedLogs(rows) == {i \in LogIds : rows[i] = "unprocessed"}

InitLogs ==
    /\ logs = [i \in LogIds |-> "absent"]
    /\ fpc = "sleeping"
    /\ batch = {}
    /\ everRead = {}
    /\ unmarked = {}
    /\ late = {}
    /\ nRuns = 0

\* a request handler inserts its InteractionLog (processed_for_finetuning 0)
InsertInteractionLog(i) ==
    /\ logs[i] = "absent"
    /\ \A j \in LogIds : j < i => logs[j] # "absent"
    /\ logs' = [logs EXCEPT ![i] = "unprocessed"]
    /\ late' = IF fpc = "marking" THEN late \cup {<<i, nRuns>>} ELSE late
    /\ UNCHANGED <<fpc, batch, everRead, unmarked, nRuns>>

\* main.go lines 46-52 and ProcessLogs lines 683-692: the scheduled run
\* reads the unprocessed logs, or fails to
GetUnprocessedLogs ==
    /\ fpc = "sleeping"
    /\ nRuns < MaxRuns
    /\ nRuns' = nRuns + 1
    /\ \/ /\ UnprocessedLogs(logs) # {}
          /\ batch' = UnprocessedLogs(logs)
          /\ everRead' = everRead \cup UnprocessedLogs(logs)
          /\ fpc' = "marking"
          /\ UNCHANGED <<logs, unmarked, late>>
       \/ UNCHANGED <<logs, fpc, batch, everRead, unmarked, late>>

\* lines 694-732: the ids of the logs read are marked, or the update fails
\* and ProcessLogs returns the error
MarkLogsAsProcessed ==
    /\ fpc = "marking"
    /\ \/ /\ logs' = MarkedRows(logs, batch)
          /\ unmarked' = unmarked \ batch
       \/ /\ unmarked' = unmarked \cup batch
          /\ UNCHANGED logs
    /\ batch' = {}
    /\ fpc' = "sleeping"
    /\ UNCHANGED <<everRead, late, nRuns>>

(***************************************************************************)
(* Specifications                                                          *)
(***************************************************************************)
\* One goroutine runs ExecuteWorkflow calls one after the other, with every
\* workflow name and every repository content, while another registers
\* workflows.
InitRun ==
    InitHost(RepoContents) /\ InitTester({{}}, {"8080"}) /\ InitAgent({""}) /\ InitStore /\ InitLogs

NextRun ==
    /\ \/ RegistrarStep
       \/ CallerStep("c1", CallNames)
       \/ PanicPropagates("c1")
    /\ UNCHANGED <<testerVars, agentVars, storeVars, logVars>>

SpecRun == InitRun /\ [][NextRun]_vars

\* Two goroutines run ExecuteWorkflow calls concurrently on a new Engine.
InitEngine ==
    InitHost({{"go.mod"}}) /\ InitTester({{}}, {"8080"}) /\ InitAgent({""}) /\ InitStore /\ InitLogs

NextEngine ==
    /\ \E c \in Callers : CallerStep(c, CallNames)
    /\ UNCHANGED <<testerVars, agentVars, storeVars, logVars>>

SpecEngine == InitEngine /\ [][NextEngine]_vars

\* One goroutine runs TestApplication calls one after the other, with every
\* requirement and application, on hosts with different tools installed.
Requirements == [Type : AppTypes, Language : DeclaredLanguages]

InitTesting ==
    InitHost({{}}) /\ InitTester(ToolSets, AgentPorts) /\ InitAgent({""}) /\ InitStore /\ InitLogs

NextTesting ==
    /\ TesterStep("t1", Requirements, AppDirs)
    /\ UNCHANGED <<engineVars, agentVars, storeVars, logVars>>

SpecTester == InitTesting /\ [][NextTesting]_vars

\* Two goroutines (two requests to /test-app, or two generate-and-test runs)
\* call TestApplication concurrently while the agent listens on its default
\* port.
ConcurrentRequirements == { [Type |-> "web", Language |-> ""] }

ConcurrentApps == { a \in AppDirs : "index.js" \in a.files }

\* the run times are installed, the linters and scanners are not
RunTimes == {"go", "npm", "node", "python"}

InitConcurrent ==
    InitHost({{}}) /\ InitTester({RunTimes}, {"8080"}) /\ InitAgent({""}) /\ InitStore /\ InitLogs

NextConcurrent ==
    /\ \E t \in Testers : TesterStep(t, ConcurrentRequirements, ConcurrentApps)
    /\ UNCHANGED <<engineVars, agentVars, storeVars, logVars>>

SpecConcurrent == InitConcurrent /\ [][NextConcurrent]_vars

\* The summary of TestApplication (lines 101-141) applied to every list of
\* five or six results, whatever their statuses and coverages.
CoverageValues == {0, 40, 85}

FiveChecks == <<"build", "static", "unit", "security", "performance">>

SixChecks == <<"build", "static", "unit", "api", "security", "performance">>

\* results of these types; the static and the unit result carry a coverage
ResultsOf(types, st, c2, c3) ==
    [i \in 1..Len(types) |->
        [Type |-> types[i], Status |-> st[i],
         Coverage |-> IF i = 2 THEN c2 ELSE IF i = 3 THEN c3 ELSE 0]]

SuiteInputs(types) ==
    { ResultsOf(types, st, c2, c3) :
        st \in [1..Len(types) -> Statuses], c2 \in CoverageValues, c3 \in CoverageValues }

InitSummary ==
    /\ InitHost({{}}) /\ InitAgent({""}) /\ InitStore /\ InitLogs
    /\ tools = {}
    /\ tpc = [t \in Testers |-> IF t = "t1" THEN "summary" ELSE "idle"]
    /\ app = [t \in Testers |-> NoApp]
    /\ language = [t \in Testers |-> IF t = "t1" THEN "go" ELSE ""]
    /\ server = [t \in Testers |-> NoServer]
    /\ listener = [p \in Ports |-> IF p = "8080" THEN Agent ELSE NoListener]
    /\ nTests = 1
    /\ \E types \in {FiveChecks, SixChecks} :
         /\ appReq = [t \in Testers |->
                IF t = "t1"
                THEN [Type |-> IF Len(types) = 6 THEN "api" ELSE "cli", Language |-> "go"]
                ELSE NoReq]
         /\ \E R \in SuiteInputs(types) :
                suite = [t \in Testers |->
                    IF t = "t1" THEN [NoSuite EXCEPT !.Results = R] ELSE NoSuite]

NextSummary ==
    /\ \/ Summarize("t1")
       \/ TestDone("t1")
    /\ UNCHANGED <<engineVars, agentVars, storeVars, logVars>>

SpecSummary == InitSummary /\ [][NextSummary]_vars

\* Webhook requests of every kind arrive at an Agent with or without a
\* configured secret; each accepted one runs "ci_cd" in its own goroutine.
InitWebhook ==
    InitHost({{"go.mod"}}) /\ InitTester({{}}, {"8080"}) /\ InitAgent(Secrets)
        /\ InitStore /\ InitLogs

NextWebhook ==
    /\ \/ /\ \/ \E r \in Requests : HandleWebhook(r)
             \/ SpawnProcessWebhook
             \/ Respond
             \/ IgnoreRef
             \/ SendStatus
             \/ RequestOver
          /\ UNCHANGED engineVars
       \/ ProcessWebhook("c1")
       \/ StoreResult("c1")
       \/ WorkflowStep("c1") /\ UNCHANGED agentVars
    /\ UNCHANGED <<testerVars, storeVars, logVars>>

SpecWebhook == InitWebhook /\ [][NextWebhook]_vars

\* Store, Retrieve and Delete on a FileStorage, in any order.
InitStorage ==
    InitHost({{}}) /\ InitTester({{}}, {"8080"}) /\ InitAgent({""})
        /\ InitStore /\ InitLogs

NextStorage ==
    /\ \/ \E k \in StoreKeys, v \in StoreValues : Store(k, v)
       \/ \E k \in StoreKeys : Retrieve(k)
       \/ \E k \in StoreKeys : Delete(k)
    /\ UNCHANGED <<engineVars, testerVars, agentVars, logVars>>

SpecStorage == InitStorage /\ [][NextStorage]_vars

\* The scheduled ProcessLogs runs while request handlers insert logs.
InitFinetuning ==
    InitHost({{}}) /\ InitTester({{}}, {"8080"}) /\ InitAgent({""})
        /\ InitStore /\ InitLogs

NextFinetuning ==
    /\ \/ \E i \in LogIds : InsertInteractionLog(i)
       \/ GetUnprocessedLogs
       \/ MarkLogsAsProcessed
    /\ UNCHANGED <<engineVars, testerVars, agentVars, storeVars>>

SpecFinetuning == InitFinetuning /\ [][NextFinetuning]_vars

(***************************************************************************)
(* Properties of the workflow engine                                       *)
(***************************************************************************)
\* positions of a call between its activeJobs++ and its activeJobs--
Counted == {"lookup", "mkdir", "step", "running", "stepret", "rm", "dec", "decw"}

\* positions at which a call holds a workspace it made
HasWorkspace == {"step", "running", "stepret", "rm"}

\* the call has left ExecuteWorkflow
Left(c) == pc[c] \in {"returned", "panicked"}

IsNotFound(r) == r.Error # NoError /\ r.Error[1] = "workflow not found"

IsMkdirFailed(r) == r.Error # NoError /\ r.Error[1] = "failed to create temp directory"

HasFailedStep(r) == \E i \in 1..Len(r.Steps) : ~r.Steps[i].Success

StepNames(steps) == [i \in 1..Len(steps) |-> steps[i].Name]

IsPrefix(s, t) == Len(s) <= Len(t) /\ \A i \in 1..Len(s) : s[i] = t[i]

\* C1: under any interleaving of concurrent ExecuteWorkflow calls the active
\* count is exactly the number of calls between their increment and their
\* deferred decrement, so every call that has returned (all steps succeeded,
\* a step failed, workflow not found, temp directory not created) has put
\* the count back, and with no call in flight GetActiveJobs is 0.
C1_ActiveCountRestored ==
    /\ GetActiveJobs = Cardinality({c \in Callers : pc[c] \in Counted})
    /\ (\A c \in Callers : pc[c] \in {"idle", "returned"}) => GetActiveJobs = 0

C1_Witness ==
    /\ pc["c1"] = "returned" /\ HasFailedStep(result["c1"])
    /\ pc["c2"] = "returned" /\ IsMkdirFailed(result["c2"])
    /\ GetActiveJobs = 0

C3_PrefixEndsInFailure ==
    \A c \in Callers :
        (pc[c] = "returned" /\ ~IsNotFound(result[c])) =>
            LET S == result[c].Steps IN
            /\ IsPrefix(StepNames(S), StepNames(wf[c]))
            /\ Len(S) < Len(wf[c]) => (Len(S) > 0 /\ ~S[Len(S)].Success)

\* C3 as amended: the names of Result.Steps are a prefix of the workflow's
\* steps; a prefix shorter than the list either ends in a failed StepResult
\* or is empty in the Result of a failed temp directory creation, and in
\* both cases Result.Success is false.
C3_PrefixAmended ==
    \A c \in Callers :
        (pc[c] = "returned" /\ ~IsNotFound(result[c])) =>
            LET S == result[c].Steps IN
            /\ IsPrefix(StepNames(S), StepNames(wf[c]))
            /\ Len(S) < Len(wf[c]) =>
                   /\ ~result[c].Success
                   /\ \/ Len(S) > 0 /\ ~S[Len(S)].Success
                      \/ Len(S) = 0 /\ IsMkdirFailed(result[c])

C3_Witness ==
    \E c \in Callers :
        /\ pc[c] = "returned"
        /\ Len(wf[c]) = 3
        /\ Len(result[c].Steps) = 2
        /\ ~result[c].Steps[2].Success

NotRegistered(n) ==
    /\ n \notin DOMAIN workflows
    /\ pending = << >> \/ pending[1].Name # n

\* C5: a call with a name that is not registered runs no step, makes no
\* workspace directory, and returns Success=false with a non-empty Error.
C5_UnknownWorkflow ==
    \A c \in Callers :
        (pc[c] \notin {"idle", "inc", "lookup"} /\ NotRegistered(name[c])) =>
            /\ pc[c] \in {"dec", "decw", "returned"}
            /\ ~result[c].Success
            /\ result[c].Error # NoError
            /\ result[c].Steps = << >>
            /\ launched[c] = << >>
            /\ tempDir[c] = NoPath
            /\ \A p \in Paths : fs[p] = 0

C5_Witness ==
    \E c \in Callers :
        /\ pc[c] = "returned" /\ NotRegistered(name[c])
        /\ "pipeline" \in DOMAIN workflows

\* C6: a step whose process was still running when the step's Timeout had
\* passed is reported as failed with a timeout error.
C6_TimeoutEnforced ==
    \A c \in Callers :
        (stepResult[c] # << >> /\ stepResult[c][1].Duration = "over") =>
            /\ ~stepResult[c][1].Success
            /\ stepResult[c][1].Error = "timeout"

\* C7: two calls in flight never have the same workspace path, and the
\* workspace of a call that is still running is the directory it made: no
\* other call's cleanup has removed or replaced it.
C7_WorkspaceNotShared ==
    /\ \A c, d \in Callers :
           (c # d /\ pc[c] \in HasWorkspace /\ pc[d] \in HasWorkspace) =>
               tempDir[c] # tempDir[d]
    /\ \A c \in Callers :
           pc[c] \in HasWorkspace =>
               tempDir[c] \in Paths /\ fs[tempDir[c]] = tempIno[c]

C7_Witness ==
    /\ pc["c1"] = "running" /\ pc["c2"] = "dec"
    /\ tempIno["c2"] # 0 /\ tempIno["c1"] < tempIno["c2"]

\* C8: the lookup of line 128 is never performed while RegisterWorkflow is
\* writing e.workflows.
C8_NoRacyLookup == \A c \in Callers : ~racy[c]

\* C9: a call with an unregistered name leaves the counters alone: after the
\* first call of an Engine has returned "workflow not found", GetTotalJobs
\* is still 0, and while that call is in flight GetActiveJobs is never
\* raised by it.
C9_NotFoundLeavesCounters ==
    \A c \in Callers :
        /\ (pc[c] = "returned" /\ IsNotFound(result[c]) /\ nCalls = 1) =>
               GetTotalJobs = 0
        /\ (pc[c] \in {"dec", "decw"} /\ IsNotFound(result[c]) /\ nCalls = 1) =>
               GetActiveJobs = 0

(***************************************************************************)
(* Properties of the application tester                                    *)
(***************************************************************************)
CheckTypes == <<"build", "static", "unit", "api", "security", "performance">>

ResultTypes(t) == [i \in 1..Len(suite[t].Results) |-> suite[t].Results[i].Type]

\* C10 as claimed: every TestSuite returned by TestApplication has exactly
\* six results, one for each of build, static, unit, api, security and
\* performance.
C10_AlwaysSixResults ==
    \A t \in Testers :
        tpc[t] = "returned" =>
            /\ Len(suite[t].Results) = 6
            /\ ResultTypes(t) = CheckTypes

\* C10 as amended: the returned TestSuite has the six results build, static,
\* unit, api, security, performance when appReq.Type is "api" or "web"; for
\* any other type it has the five results build, static, unit, security,
\* performance and no api result.
C10_SixOrFiveResults ==
    \A t \in Testers :
        tpc[t] = "returned" =>
            /\ suite[t].TotalTests = Len(suite[t].Results)
            /\ IF appReq[t].Type \in {"api", "web"}
               THEN ResultTypes(t) = CheckTypes
               ELSE ResultTypes(t) =
                        <<"build", "static", "unit", "security", "performance">>

C10_Witness ==
    \E t \in Testers :
        /\ tpc[t] = "returned"
        /\ appReq[t].Type = "cli"
        /\ suite[t].TotalTests = 5
        /\ suite[t].FailedTests = 1

\* the statuses of the results of the call
ResultStatuses(t) == {suite[t].Results[i].Status : i \in 1..Len(suite[t].Results)}

\* the results of the call that have this type
ResultsOfType(t, type) ==
    {i \in 1..Len(suite[t].Results) : suite[t].Results[i].Type = type}

\* C11: every check returns one of the statuses pass, fail, skip, so in every
\* TestSuite returned by TestApplication TotalTests is the sum of
\* PassedTests, FailedTests and SkippedTests.
C11_TalliesAddUp ==
    \A t \in Testers :
        /\ ResultStatuses(t) \subseteq Statuses
        /\ tpc[t] = "returned" =>
               suite[t].TotalTests =
                   suite[t].PassedTests + suite[t].FailedTests + suite[t].SkippedTests

C11_Witness ==
    \E t \in Testers :
        /\ tpc[t] = "returned"
        /\ suite[t].TotalTests = 6
        /\ suite[t].PassedTests = 3
        /\ suite[t].FailedTests = 2
        /\ suite[t].SkippedTests = 1

\* C12: the OverallStatus of a summarised TestSuite is "failure" when a
\* result has status fail, otherwise "success" when a result has status
\* pass, otherwise "skipped", for every list of result statuses.
C12_OverallStatus ==
    \A t \in Testers :
        tpc[t] = "returned" =>
            suite[t].OverallStatus =
                IF "fail" \in ResultStatuses(t) THEN "failure"
                ELSE IF "pass" \in ResultStatuses(t) THEN "success"
                ELSE "skipped"

C12_Witness ==
    \E t \in Testers :
        /\ tpc[t] = "returned"
        /\ suite[t].OverallStatus = "failure"
        /\ suite[t].FailedTests = 1
        /\ suite[t].PassedTests = 4
        /\ suite[t].SkippedTests = 1

\* the checks TestApplication runs for a requirement, in their order
ExpectedChecks(r) == IF r.Type \in {"api", "web"} THEN SixChecks ELSE FiveChecks

\* the check the call is in
CheckAt(t) == IF tpc[t] \in {"probe", "stop"} THEN "api" ELSE tpc[t]

\* C13: TestApplication is fail-soft.  The checks run one after the other in
\* the fixed order build, static, unit, api, security, performance (api for
\* the types that have it); whatever statuses the earlier checks returned,
\* fail and skip included, the call is in the next check of the order, and
\* it summarises only when every check has a result.
C13_FailSoft ==
    \A t \in Testers :
        tpc[t] # "idle" =>
            LET E == ExpectedChecks(appReq[t])
                n == Len(suite[t].Results) IN
            /\ n <= Len(E)
            /\ \A i \in 1..n : suite[t].Results[i].Type = E[i]
            /\ n < Len(E) => CheckAt(t) = E[n + 1]
            /\ n = Len(E) => tpc[t] \in {"summary", "returned"}

C13_Witness ==
    \E t \in Testers :
        /\ tpc[t] = "returned"
        /\ suite[t].Results[1].Status = "fail"
        /\ suite[t].Results[2].Status = "skip"
        /\ ResultTypes(t) = CheckTypes

\* the results that report a coverage
Covered(R) == {i \in 1..Len(R) : R[i].Coverage > 0}

\* C14: the Coverage of a summarised TestSuite is 0 when no result reports a
\* coverage above 0, is that coverage when exactly one result reports one,
\* and in general is the sum of the coverages above 0 divided by their
\* number.
C14_CoverageIsMean ==
    \A t \in Testers :
        tpc[t] = "returned" =>
            LET R == suite[t].Results
                C == suite[t].Coverage IN
            /\ C.den > 0
            /\ Covered(R) = {} => C.num = 0
            /\ \A i \in Covered(R) : Covered(R) = {i} => C.num = R[i].Coverage * C.den
            /\ C.num * Cardinality(Covered(R)) = SumCoverage(R) * C.den

C14_Witness ==
    \E t \in Testers :
        /\ tpc[t] = "returned"
        /\ suite[t].Results[2].Coverage = 40
        /\ suite[t].Results[3].Coverage = 85
        /\ suite[t].Coverage.num * 2 = 125 * suite[t].Coverage.den

\* C15: the security result of an application with a secret literal in a
\* source file has status fail.
C15_SecretLiteralFails ==
    \A t \in Testers :
        \A i \in ResultsOfType(t, "security") :
            app[t].secretLiteral => suite[t].Results[i].Status = "fail"

\* the call is past its API check
PastAPI == {"security", "performance", "summary", "returned"}

\* C16: once the API check has returned, no process it started is running,
\* and a call that is over has left no process behind.
C16_ServerStopped ==
    /\ \A t \in Testers :
           (tpc[t] \in PastAPI /\ server[t].state # "none") =>
               /\ server[t].state = "killed"
               /\ server[t].child # "running"
    /\ \A p \in Ports : listener[p] # Orphan

\* C17: the API result has status fail only if a server was started and no
\* probe was reachable, and a reachable probe makes it pass.
C17_FailOnlyAfterProbes ==
    \A t \in Testers :
        \A i \in ResultsOfType(t, "api") :
            /\ suite[t].Results[i].Status = "fail" =>
                   /\ server[t].state # "none"
                   /\ server[t].probed
                   /\ server[t].successCount = 0
            /\ (server[t].probed /\ server[t].successCount >= 1) =>
                   suite[t].Results[i].Status = "pass"

\* the ports services listen on by default: the agent and Go (8080), node
\* (3000), Flask (5000)
DefaultPorts == {"8080", "3000", "5000"}

\* C18: the port the API check starts the application for, and probes, is
\* not a default port.
C18_NonDefaultPort ==
    \A t \in Testers : server[t].state # "none" => server[t].port \notin DefaultPorts

\* C19: nothing serialises the API check across calls: a call that has
\* reached its API check can start its application whatever the other
\* calls are doing, also while another call has a server running for the
\* same port and is probing it.
C19_ApiPhaseNotSerialised ==
    \A t \in Testers : tpc[t] = "api" => ENABLED TestAPIStart(t)

\* two calls for the same language have a server started for the same port
\* at the same time, and the probes of one were answered by the server the
\* other started
C19_Witness ==
    /\ tpc["t1"] = "probe" /\ tpc["t2"] = "stop"
    /\ language["t1"] = language["t2"]
    /\ server["t1"].state = "running" /\ server["t2"].state = "running"
    /\ server["t1"].port = server["t2"].port
    /\ listener[server["t1"].port] = "t1"
    /\ server["t2"].answeredBy = "t1"
    /\ server["t2"].successCount > 0

\* strings.ToLower on the declared languages, as a table
Lowered(str) ==
    CASE str = "Go" -> "go"
      [] str = "NodeJS" -> "nodejs"
      [] str = "python" -> "python"
      [] str = "rust" -> "rust"

\* the marker files in the order they are looked for, and what each yields
Markers ==
    << <<"package.json", "javascript">>, <<"go.mod", "go">>,
       <<"requirements.txt", "python">>, <<"pom.xml", "java">>,
       <<"composer.json", "php">>, <<"Gemfile", "ruby">> >>

\* C20: the detected language is the declared language lower-cased when one
\* is declared, whatever marker files exist; otherwise what the first marker
\* file present yields, in the order package.json, go.mod, requirements.txt,
\* pom.xml, composer.json, Gemfile; and "go" when there is no marker file.
C20_LanguageDetection ==
    \A t \in Testers :
        tpc[t] # "idle" =>
            LET present == {i \in 1..Len(Markers) : Markers[i][1] \in app[t].files} IN
            IF appReq[t].Language # "" THEN language[t] = Lowered(appReq[t].Language)
            ELSE IF present = {} THEN language[t] = "go"
            ELSE \E i \in present :
                    /\ \A j \in present : i <= j
                    /\ language[t] = Markers[i][2]

C20_Witness ==
    \E t \in Testers :
        /\ tpc[t] = "returned"
        /\ appReq[t].Language = ""
        /\ app[t].files = {"package.json", "go.mod"}
        /\ language[t] = "javascript"

\* the build manifests executeStep looks for in the cloned repository
Manifests == {"go.mod", "package.json", "Makefile"}

\* C21: a check whose executable is not installed reports skip: the build
\* result of a Go application on a host without the go tool has status skip.
C21_MissingToolSkips ==
    \A t \in Testers :
        \A i \in ResultsOfType(t, "build") :
            (language[t] \in GoNames /\ "go" \notin tools) =>
                suite[t].Results[i].Status = "skip"

\* C22: when no static-analysis tool is available for the detected language
\* the static result has status pass.
C22_NoStaticToolPasses ==
    \A t \in Testers :
        \A i \in ResultsOfType(t, "static") :
            StaticCommands(language[t]) = {} => suite[t].Results[i].Status = "pass"

\* C23: a run of the steps clone, build, test whose clone succeeded on a
\* repository without a build manifest starts no command for build and
\* test, and returns Success=true with three StepResults, none failed.
C23_NoManifestSkips ==
    \A c \in Callers :
        (/\ pc[c] = "returned"
         /\ StepNames(wf[c]) = <<"clone", "build", "test">>
         /\ Len(result[c].Steps) >= 1 /\ result[c].Steps[1].Success
         /\ remote \cap Manifests = {}) =>
            /\ Len(launched[c]) = 1
            /\ result[c].Success
            /\ Len(result[c].Steps) = 3
            /\ ~HasFailedStep(result[c])

\* C26: every Result returned by ExecuteWorkflow has Duration set to the
\* elapsed time of the call.
C26_DurationSet ==
    \A c \in Callers : pc[c] = "returned" => result[c].Duration = "elapsed"

\* C27: under any interleaving of concurrent ExecuteWorkflow calls,
\* 0 <= activeJobs <= totalJobs; totalJobs is exactly the number of calls
\* that have incremented it since the Engine was made (so it never goes
\* down and no increment is lost); and activeJobs is totalJobs less the
\* calls that have run their deferred decrement.
C27_CountersConsistent ==
    /\ 0 <= activeJobs /\ activeJobs <= totalJobs
    /\ totalJobs = nCalls - Cardinality({c \in Callers : pc[c] = "inc"})
    /\ totalJobs - activeJobs =
           nCalls - Cardinality({c \in Callers : pc[c] \in Counted \cup {"inc"}})

C27_Witness ==
    /\ nCalls = MaxCalls
    /\ \A c \in Callers : pc[c] = "returned"
    /\ totalJobs = MaxCalls
    /\ activeJobs = 0

\* C28: no ExecuteWorkflow call panics, whatever workflow was registered.
C28_NoPanic == \A c \in Callers : ~panicking[c]

(***************************************************************************)
(* Properties of the agent, the storage and the fine-tuner                 *)
(***************************************************************************)
\* the request passes the gates of HandleWebhook
PassesHandlerGates ==
    /\ req.method = "POST"
    /\ req.readable
    /\ req.json
    /\ webhookSecret # "" => (req.sig.prefix /\ req.sig.key = webhookSecret)

\* C24: HandleWebhook answers an accepted webhook without waiting for the
\* workflow: once the goroutine is started the handler can write its
\* response whatever that goroutine is doing, and the response of a request
\* that passed the handler's gates is 200 "accepted" whatever the workflow
\* did or returned.
C24_AcknowledgedAtOnce ==
    /\ hpc = "respond" => ENABLED Respond
    /\ (hpc = "done" /\ PassesHandlerGates) => response = [code |-> 200, body |-> "accepted"]
    /\ response.code = 200 => PassesHandlerGates

C24_Witness ==
    /\ hpc = "done"
    /\ response.code = 200
    /\ wpc = "executing"
    /\ pc["c1"] = "running"

\* C29: a workflow is started, a Result stored or a commit status sent only
\* for a request that is a POST with a readable JSON body, whose signature
\* header is the HMAC of the body under the configured secret when there is
\* one, and whose ref ends in /main or /master.
C29_OnlyGatedRequestsRun ==
    (\/ pc["c1"] # "idle"
     \/ wpc \in {"executing", "status_success", "status_failure"}
     \/ stored
     \/ statusSent # << >>) =>
        /\ PassesHandlerGates
        /\ req.ref \in {"refs/heads/main", "refs/heads/master", "refs/heads/feature/main"}

C29_Witness ==
    /\ wpc = "finished"
    /\ stored
    /\ statusSent = <<"failure">>
    /\ webhookSecret = "s3cret"
    /\ req.ref = "refs/heads/master"

\* C25: Retrieve(k) returns the data of the last Store(k, v), and "key not
\* found" when the key was never stored or was deleted last, whatever was
\* done with other keys; an operation returns "key not found" only for such
\* a key.
C25_RoundTrip ==
    LET l == latest[lastOp.key] IN
    /\ lastOp.op = "Retrieve" =>
           IF l[1] = "stored"
           THEN lastOp.err = "" /\ lastOp.data = <<l[2]>>
           ELSE lastOp.err = "key not found"
    /\ (lastOp.op = "Delete" /\ lastOp.err = "key not found") => l[1] # "stored"

\* C30: a log is marked processed only if a run has read it; the logs a run
\* is about to mark are the ones it read, all still unprocessed, so a marked
\* log is not read again; a log inserted between the read and the update of
\* a run is not in what that run marks and is marked only by a later run;
\* and every log a run has read is marked, unless that run's update failed.
C30_MarksWhatItRead ==
    /\ \A i \in LogIds : logs[i] = "processed" => i \in everRead
    /\ \A i \in batch : logs[i] = "unprocessed"
    /\ fpc = "marking" <=> batch # {}
    /\ \A l \in late :
          /\ (fpc = "marking" /\ l[2] = nRuns) =>
                 (l[1] \notin batch /\ logs[l[1]] = "unprocessed")
          /\ logs[l[1]] = "processed" => nRuns > l[2]
    /\ \A i \in everRead : logs[i] = "processed" \/ i \in batch \/ i \in unmarked

C30_Witness ==
    /\ fpc = "sleeping"
    /\ nRuns = 2
    /\ <<2, 1>> \in late
    /\ logs[1] = "processed" /\ logs[2] = "processed"
    /\ unmarked = {}

====
